---- MODULE Spec2Model ----
(***************************************************************************)
(* Repo Scorer AI (src/app.py): one Streamlit session.  A request is the   *)
(* button handler of main(): input checks, fetch_repo_data (three GitHub   *)
(* calls), get_ai_analysis (one LLM call, fence stripping, json.loads) and *)
(* the rendering of the result.  Strings are sequences of one-character    *)
(* strings, so that strip/rstrip/split/replace/startswith and the JSON     *)
(* parse are computed and not assumed.                                     *)
(***************************************************************************)
EXTENDS Integers, Sequences, FiniteSets

(* ------------------------------ bounds -------------------------------- *)

\* Requests submitted in one session.
MaxRequests == 2
\* Largest number of commits the repository really has (beyond per_page).
MaxCommits == 52
\* Largest run of whitespace put around an LLM response and its payload.
MaxPad == 1

\* per_page of the commits request.
PerPage == 50

(* --------------------------- Python strings --------------------------- *)

Whitespace == {" ", "\n"}

RECURSIVE LStripChars(_, _)
LStripChars(s, cs) ==
    IF s # <<>> /\ Head(s) \in cs THEN LStripChars(Tail(s), cs) ELSE s

RECURSIVE RStripChars(_, _)
RStripChars(s, cs) ==
    IF s # <<>> /\ s[Len(s)] \in cs THEN RStripChars(SubSeq(s, 1, Len(s) - 1), cs) ELSE s

Strip(s) == RStripChars(LStripChars(s, Whitespace), Whitespace)

StartsWithAt(s, i, p) == i + Len(p) - 1 <= Len(s) /\ SubSeq(s, i, i + Len(p) - 1) = p

StartsWith(s, p) == StartsWithAt(s, 1, p)

Contains(s, p) == \E i \in 1..(Len(s) + 1) : StartsWithAt(s, i, p)

\* s.replace(old, "", 1)
ReplaceFirst(s, old) ==
    IF ~Contains(s, old) THEN s
    ELSE LET i == CHOOSE k \in 1..(Len(s) + 1) :
                      /\ StartsWithAt(s, k, old)
                      /\ \A m \in 1..(k - 1) : ~StartsWithAt(s, m, old)
         IN SubSeq(s, 1, i - 1) \o SubSeq(s, i + Len(old), Len(s))

\* s.split(sep) for a one-character separator: "" splits to [""].
RECURSIVE SplitAcc(_, _, _, _)
SplitAcc(s, sep, cur, acc) ==
    IF s = <<>> THEN Append(acc, cur)
    ELSE IF Head(s) = sep THEN SplitAcc(Tail(s), sep, <<>>, Append(acc, cur))
    ELSE SplitAcc(Tail(s), sep, Append(cur, Head(s)), acc)

Split(s, sep) == SplitAcc(s, sep, <<>>, <<>>)

RECURSIVE Repeat(_, _)
Repeat(c, k) == IF k = 0 THEN <<>> ELSE <<c>> \o Repeat(c, k - 1)

(* ------------------------------ json.loads ---------------------------- *)

\* A parsed JSON value is [t, v]: t its Python type, v its content.
NoValue == [t |-> "none", v |-> <<>>]

Fail == [ok |-> FALSE, val |-> NoValue, next |-> 0]

Ok(val, next) == [ok |-> TRUE, val |-> val, next |-> next]

Digits == {"0", "1"}

RECURSIVE SkipWs(_, _)
SkipWs(s, i) == IF i <= Len(s) /\ s[i] \in Whitespace THEN SkipWs(s, i + 1) ELSE i

RECURSIVE ScanDigits(_, _)
ScanDigits(s, i) == IF i <= Len(s) /\ s[i] \in Digits THEN ScanDigits(s, i + 1) ELSE i

ParseNumber(s, i) ==
    LET j == IF s[i] = "0" THEN i + 1 ELSE ScanDigits(s, i)
    IN Ok([t |-> "num", v |-> SubSeq(s, i, j - 1)], j)

ParseString(s, i) ==
    LET closing == {j \in (i + 1)..Len(s) : s[j] = "\""}
    IN IF closing = {} THEN Fail
       ELSE LET j == CHOOSE k \in closing : \A m \in closing : k <= m
                body == SubSeq(s, i + 1, j - 1)
            IN IF \E k \in 1..Len(body) : body[k] = "\n" THEN Fail
               ELSE Ok([t |-> "str", v |-> body], j + 1)

RECURSIVE ParseValue(_, _), ParseElements(_, _, _), ParseMembers(_, _, _)
ParseValue(s, i) ==
    IF i > Len(s) THEN Fail
    ELSE IF s[i] = "\"" THEN ParseString(s, i)
    ELSE IF s[i] \in Digits THEN ParseNumber(s, i)
    ELSE IF StartsWithAt(s, i, <<"n", "u", "l", "l">>)
         THEN Ok([t |-> "null", v |-> <<>>], i + 4)
    ELSE IF s[i] = "[" THEN
        LET j == SkipWs(s, i + 1)
        IN IF j <= Len(s) /\ s[j] = "]" THEN Ok([t |-> "list", v |-> <<>>], j + 1)
           ELSE ParseElements(s, j, <<>>)
    ELSE IF s[i] = "{" THEN
        LET j == SkipWs(s, i + 1)
        IN IF j <= Len(s) /\ s[j] = "}" THEN Ok([t |-> "dict", v |-> <<>>], j + 1)
           ELSE ParseMembers(s, j, <<>>)
    ELSE Fail

ParseElements(s, i, acc) ==
    LET r == ParseValue(s, i)
        j == SkipWs(s, r.next)
    IN IF ~r.ok \/ j > Len(s) THEN Fail
       ELSE IF s[j] = "," THEN ParseElements(s, SkipWs(s, j + 1), Append(acc, r.val))
       ELSE IF s[j] = "]" THEN Ok([t |-> "list", v |-> Append(acc, r.val)], j + 1)
       ELSE Fail

ParseMembers(s, i, acc) ==
    IF i > Len(s) \/ s[i] # "\"" THEN Fail
    ELSE LET k == ParseString(s, i)
             c == SkipWs(s, k.next)
         IN IF ~k.ok \/ c > Len(s) \/ s[c] # ":" THEN Fail
            ELSE LET r == ParseValue(s, SkipWs(s, c + 1))
                     j == SkipWs(s, r.next)
                 IN IF ~r.ok \/ j > Len(s) THEN Fail
                    ELSE IF s[j] = ","
                         THEN ParseMembers(s, SkipWs(s, j + 1),
                                           Append(acc, <<k.val.v, r.val>>))
                    ELSE IF s[j] = "}"
                         THEN Ok([t |-> "dict", v |-> Append(acc, <<k.val.v, r.val>>)],
                                 j + 1)
                    ELSE Fail

\* json.loads(s): one value, whitespace around it, nothing else.
JsonLoads(s) ==
    LET r == ParseValue(s, SkipWs(s, 1))
    IN IF r.ok /\ SkipWs(s, r.next) = Len(s) + 1 THEN r ELSE Fail

(* --------------------------- get_ai_analysis -------------------------- *)

\* The backtick character (U+0060), which a string of the module cannot hold.
Tick == "backtick"

FenceJson == <<Tick, Tick, Tick, "j", "s", "o", "n">>

Fence == <<Tick, Tick, Tick>>

ErrorKey == <<"e", "r", "r", "o", "r">>

InvalidFormatMsg ==
    <<"I", "n", "v", "a", "l", "i", "d", " ", "A", "I", " ", "r", "e", "s", "p", "o", "n", "s", "e", " ", "f", "o", "r", "m", "a", "t", ".">>

\* The dict {"error": msg}.
ErrorDict(msg) == [t |-> "dict", v |-> << <<ErrorKey, [t |-> "str", v |-> msg]>> >>]

\* x.rstrip(backtick).strip()
UnfenceTail(x) == Strip(RStripChars(x, {Tick}))

\* The text handed to json.loads: the trimmed response, its opening fence
\* marker (first occurrence) and its trailing backticks removed.
StripFences_noRstrip(response) ==
    LET text == Strip(response)
    IN IF StartsWith(text, FenceJson) THEN Strip(ReplaceFirst(text, FenceJson))
       ELSE IF StartsWith(text, Fence) THEN Strip(ReplaceFirst(text, Fence))
       ELSE text

StripFences(response) ==
    LET text == Strip(response)
    IN IF StartsWith(text, FenceJson) THEN UnfenceTail(ReplaceFirst(text, FenceJson))
       ELSE IF StartsWith(text, Fence) THEN UnfenceTail(ReplaceFirst(text, Fence))
       ELSE text

\* What get_ai_analysis returns for the text of the LLM.
GetAiAnalysis(response) ==
    LET r == JsonLoads(StripFences(response))
    IN IF r.ok THEN r.val ELSE ErrorDict(InvalidFormatMsg)

(* ------------------------- main: the input checks --------------------- *)

\* repo_url.strip().rstrip('/').split('/')
UrlParts(url) == Split(RStripChars(Strip(url), {"/"}), "/")

\* The negation of the rejection test on url_parts.
ValidParts(parts) ==
    ~(Len(parts) < 2 \/ parts[Len(parts) - 1] = <<>> \/ parts[Len(parts)] = <<>>)

\* session_state is a dict: a function whose domain holds the keys set so far.
EmptySession == [k \in {} |-> <<>>]

DuplicateGuard_never(state, url) == FALSE

DuplicateGuard(state, url) ==
    "last_analyzed_url" \in DOMAIN state /\ state["last_analyzed_url"] = url

(* ------------------------------ the inputs ---------------------------- *)

UrlFull == <<"s", ":", "/", "/", "g", "/", "x", "/", "y">>
UrlOther == <<"s", ":", "/", "/", "g", "/", "x", "/", "z">>
UrlOnlyOwner == <<"s", ":", "/", "/", "g", "/", "x">>
UrlHost == <<"s", ":", "/", "/", "g">>
UrlBare == <<"x", "/", "y">>

\* The URLs a session submits: a repository, the same one with a leading
\* blank and with a trailing slash, another repository, a URL with a single
\* path segment, a URL with none, an owner/repo pair without a host, the
\* empty input.
SessionUrls ==
    {UrlFull, <<" ">> \o UrlFull, UrlFull \o <<"/">>, UrlOther, UrlOnlyOwner, UrlHost,
     UrlBare, <<>>}

PayloadObject == <<"{", "\"", "a", "\"", ":", "1", "}">>
PayloadErrorKey == <<"{", "\"", "e", "r", "r", "o", "r", "\"", ":", "1", "}">>
PayloadEmptyObject == <<"{", "}">>
PayloadMedalList == <<"{", "\"", "m", "e", "d", "a", "l", "\"", ":", "[", "]", "}">>
PayloadList == <<"[", "]">>
PayloadErrorList == <<"[", "\"", "e", "r", "r", "o", "r", "\"", "]">>
PayloadNumber == <<"1">>
PayloadString == <<"\"", "o", "k", "\"">>
PayloadErrorString == <<"\"", "e", "r", "r", "o", "r", "\"">>
PayloadNull == <<"n", "u", "l", "l">>
PayloadFenceString == <<"\"", Tick, Tick, Tick, "\"">>
PayloadNotJson == <<"n", "o", "t", " ", "j", "s", "o", "n">>
PayloadTruncated == <<"{", "\"", "a", "\"", ":", "1">>
PayloadExtra == <<"{", "\"", "a", "\"", ":", "1", "}", "}">>
PayloadBacktick == <<"1", Tick>>

Payloads ==
    {PayloadObject, PayloadErrorKey, PayloadEmptyObject, PayloadMedalList, PayloadList,
     PayloadErrorList, PayloadNumber, PayloadString, PayloadErrorString, PayloadNull,
     PayloadFenceString, PayloadNotJson, PayloadTruncated, PayloadExtra,
     PayloadBacktick, <<>>}

Styles == {"none", "json", "plain", "open", "tail"}

\* The text of a response: the payload bare ("none"), in a json-tagged fence,
\* in a plain fence, after an opening fence that is never closed ("open"), or
\* followed by a closing fence that was never opened ("tail"); lead, mid and
\* trail are the lengths of the whitespace runs.
Wrap(style, payload, lead, mid, trail) ==
    LET nl == Repeat("\n", mid)
        body == CASE style = "json" -> FenceJson \o nl \o payload \o nl \o Fence
                  [] style = "plain" -> Fence \o nl \o payload \o nl \o Fence
                  [] style = "open" -> FenceJson \o nl \o payload
                  [] style = "tail" -> payload \o nl \o Fence
                  [] OTHER -> payload
    IN Repeat(" ", lead) \o body \o Repeat("\n", trail)

Shaped(style, payload, lead, mid, trail) ==
    [style |-> style, payload |-> payload, text |-> Wrap(style, payload, lead, mid, trail)]

AllResponses ==
    {Shaped(st, p, l, m, t) : st \in Styles, p \in Payloads,
                              l \in 0..MaxPad, m \in 0..MaxPad, t \in 0..MaxPad}

\* One response of each kind, for the sessions.
SessionResponses ==
    {Shaped("json", p, 0, 1, 0) :
        p \in {PayloadObject, PayloadErrorKey, PayloadMedalList, PayloadList,
               PayloadErrorString, PayloadNumber, PayloadNotJson}}

NoShape == [style |-> "none", payload |-> <<>>, text |-> <<>>]

(* ----------------------------- fetch_repo_data ------------------------ *)

\* What a GitHub call can come to: an HTTP status, a timeout, any other
\* exception (a connection error, a body that is not JSON).
PrimaryOutcomes == {"200", "404", "timeout", "exception"}

ReadmeOutcomes == {"200", "404", "403", "timeout", "exception"}

Raised == {"timeout", "exception"}

Min(a, b) == IF a <= b THEN a ELSE b

\* The body of the commits response: the page of at most per_page commits of
\* a repository that has `count` of them, or GitHub's error object.
CommitsBody(outcome, count) ==
    IF outcome = "list"
    THEN [kind |-> "list", items |-> Repeat("commit", Min(count, PerPage))]
    ELSE [kind |-> "dict", items |-> <<"message", "documentation_url">>]

NoCommits == [kind |-> "none", items |-> <<>>]

\* len(commits_data) if isinstance(commits_data, list) else 0
RecordCommits_noIsinstance(body) == Len(body.items)

RecordCommits(body) == IF body.kind = "list" THEN Len(body.items) ELSE 0

ReadmeText_not404(outcome) ==
    IF outcome # "404" THEN "README exists and is accessible" ELSE "No README found"

ReadmeText(outcome) ==
    IF outcome = "200" THEN "README exists and is accessible" ELSE "No README found"

\* The two except clauses, and the non-200 return of the primary call.
FetchFailure(outcome) ==
    IF outcome = "timeout" THEN [error |-> "Request to GitHub timed out."]
    ELSE IF outcome = "exception" THEN [error |-> "An unexpected error occurred"]
    ELSE [error |-> "GitHub API failed"]

\* The record returned on success; the repository's name is the `name` of the
\* primary response, the other fields of that response are passed through.
RepoRecord(name, body, readmeOutcome) ==
    [name |-> name, description |-> "description", stars |-> 0, forks |-> 0,
     language |-> "Unknown", url |-> "html_url", commits |-> RecordCommits(body),
     readme |-> ReadmeText(readmeOutcome), topics |-> <<>>]

NoData == [k \in {} |-> ""]

PrimaryContinues_noStatusCheck(outcome) == outcome \notin Raised

\* The primary call lets the fetch go on only with status 200.
PrimaryContinues(outcome) == outcome = "200"

(* ------------------------- main: after the calls ---------------------- *)

IsError(data) == "error" \in DOMAIN data

\* `"error" in result` raises TypeError for a value that is no container.
InRaises(value) == value.t \in {"num", "null"}

\* `"error" in result`: a key of a dict, an element of a list, a substring of
\* a string.
ErrorIn(value) ==
    CASE value.t = "dict" -> \E i \in DOMAIN value.v : value.v[i][1] = ErrorKey
      [] value.t = "list" ->
            \E i \in DOMAIN value.v : value.v[i].t = "str" /\ value.v[i].v = ErrorKey
      [] value.t = "str" -> Contains(value.v, ErrorKey)
      [] OTHER -> FALSE

\* result.get(key, default); json.loads keeps the last of equal keys.
DictGet(dict, key, default) ==
    LET at == {i \in DOMAIN dict.v : dict.v[i][1] = key}
    IN IF at = {} THEN default
       ELSE dict.v[CHOOSE i \in at : \A j \in at : j <= i][2]

Truthy(value) ==
    CASE value.t = "num" -> value.v # <<"0">>
      [] value.t = "null" -> FALSE
      [] OTHER -> value.v # <<>>

Iterable(value) == value.t \in {"list", "dict", "str"}

EmptyList == [t |-> "list", v |-> <<>>]

\* Whether the display of the result raises: result.get on a value that is no
\* dict, a medal that cannot be a dict key, a roadmap, strengths or
\* improvements that cannot be iterated.
RenderRaises(value) ==
    IF value.t # "dict" THEN TRUE
    ELSE IF DictGet(value, <<"m", "e", "d", "a", "l">>,
                    [t |-> "str", v |-> <<"B", "r", "o", "n", "z", "e">>]).t \in {"list", "dict"}
    THEN TRUE
    ELSE LET roadmap == DictGet(value, <<"r", "o", "a", "d", "m", "a", "p">>, EmptyList)
             strengths == DictGet(value, <<"s", "t", "r", "e", "n", "g", "t", "h", "s">>, EmptyList)
             improvements ==
                 DictGet(value, <<"i", "m", "p", "r", "o", "v", "e", "m", "e", "n", "t", "s">>,
                         EmptyList)
         IN IF Truthy(roadmap) /\ ~Iterable(roadmap) THEN TRUE
            ELSE ~Iterable(strengths) \/ ~Iterable(improvements)

Terminal == {"Rejected", "Duplicate", "FetchFailed", "AnalyzeFailed", "Rendered", "Unexpected"}

AfterTerminal_fallThrough(state) == IF state = "FetchFailed" THEN "Analyzing" ELSE "Idle"

\* Every `return` of the handler, and its end, give the session back to the
\* user.
AfterTerminal(state) == "Idle"

(* ------------------------------- the state ---------------------------- *)

VARIABLES
    pc,             \* where the request is
    fpc,            \* the call fetch_repo_data is about to make
    repo_url,       \* the text input
    owner, repo,    \* url_parts[-2], url_parts[-1]
    session_state,  \* st.session_state
    state_at_start, \* st.session_state when the request was submitted
    calls,          \* the network calls of the request, with what each came to
    actual,         \* how many commits the repository really has
    commits_data,   \* the body of the commits response
    repo_data,      \* what fetch_repo_data returned
    shape,          \* the response of the LLM: its payload and its wrapping
    response_text,  \* response.text
    result,         \* what get_ai_analysis returned
    n,              \* requests submitted so far
    prev            \* the request before this one

vars ==
    <<pc, fpc, repo_url, owner, repo, session_state, state_at_start, calls, actual,
      commits_data, repo_data, shape, response_text, result, n, prev>>

Count(log, name) == Cardinality({i \in DOMAIN log : log[i].call = name})

Call(name, outcome) == [call |-> name, outcome |-> outcome]

Init ==
    /\ pc = "Idle"
    /\ fpc = "none"
    /\ repo_url = <<>>
    /\ owner = <<>>
    /\ repo = <<>>
    /\ session_state = EmptySession
    /\ state_at_start = EmptySession
    /\ calls = <<>>
    /\ actual = 0
    /\ commits_data = NoCommits
    /\ repo_data = NoData
    /\ shape = NoShape
    /\ response_text = <<>>
    /\ result = NoValue
    /\ n = 0
    /\ prev = [url |-> <<>>, outcome |-> "none", fetches |-> 0, llm |-> 0]

\* The user types a URL and presses the button.
Submit(urls) ==
    /\ pc = "Idle"
    /\ n < MaxRequests
    /\ \E u \in urls : repo_url' = u
    /\ pc' = "Validating"
    /\ n' = n + 1
    /\ state_at_start' = session_state
    /\ UNCHANGED <<fpc, owner, repo, session_state, calls, actual, commits_data,
                   repo_data, shape, response_text, result, prev>>

\* The checks before any call: empty input, duplicate guard, URL format.
Validate ==
    /\ pc = "Validating"
    /\ IF repo_url = <<>> THEN
            /\ pc' = "Rejected"
            /\ UNCHANGED <<fpc, owner, repo>>
       ELSE IF DuplicateGuard(session_state, repo_url) THEN
            /\ pc' = "Duplicate"
            /\ UNCHANGED <<fpc, owner, repo>>
       ELSE LET url_parts == UrlParts(repo_url)
            IN IF ~ValidParts(url_parts) THEN
                    /\ pc' = "Rejected"
                    /\ UNCHANGED <<fpc, owner, repo>>
               ELSE /\ pc' = "Fetching"
                    /\ fpc' = "repo"
                    /\ owner' = url_parts[Len(url_parts) - 1]
                    /\ repo' = url_parts[Len(url_parts)]
    /\ UNCHANGED <<repo_url, session_state, state_at_start, calls, actual, commits_data,
                   repo_data, shape, response_text, result, n, prev>>

\* GET /repos/{owner}/{repo}
PrimaryCall ==
    /\ pc = "Fetching"
    /\ fpc = "repo"
    /\ \E o \in PrimaryOutcomes :
        /\ calls' = Append(calls, Call("repo", o))
        /\ IF PrimaryContinues(o)
           THEN /\ fpc' = "commits"
                /\ UNCHANGED <<pc, repo_data>>
           ELSE /\ fpc' = "none"
                /\ repo_data' = FetchFailure(o)
                /\ pc' = "FetchFailed"
    /\ UNCHANGED <<repo_url, owner, repo, session_state, state_at_start, actual,
                   commits_data, shape, response_text, result, n, prev>>

\* GET /repos/{owner}/{repo}/commits?per_page=50, and .json() of the response
CommitsCall(counts) ==
    /\ pc = "Fetching"
    /\ fpc = "commits"
    /\ \/ \E o \in Raised :
            /\ calls' = Append(calls, Call("commits", o))
            /\ fpc' = "none"
            /\ repo_data' = FetchFailure(o)
            /\ pc' = "FetchFailed"
            /\ UNCHANGED <<actual, commits_data>>
       \/ \E o \in {"list", "nonlist"}, c \in counts :
            /\ calls' = Append(calls, Call("commits", o))
            /\ actual' = c
            /\ commits_data' = CommitsBody(o, c)
            /\ fpc' = "readme"
            /\ UNCHANGED <<pc, repo_data>>
    /\ UNCHANGED <<repo_url, owner, repo, session_state, state_at_start, shape,
                   response_text, result, n, prev>>

\* HEAD /repos/{owner}/{repo}/contents/README.md, then the record; main goes on
\* to the analysis.
ReadmeCall ==
    /\ pc = "Fetching"
    /\ fpc = "readme"
    /\ \E o \in ReadmeOutcomes :
        /\ calls' = Append(calls, Call("readme", o))
        /\ fpc' = "none"
        /\ IF o \in Raised
           THEN /\ repo_data' = FetchFailure(o)
                /\ pc' = "FetchFailed"
           ELSE /\ repo_data' = RepoRecord(repo, commits_data, o)
                /\ pc' = "Analyzing"
    /\ UNCHANGED <<repo_url, owner, repo, session_state, state_at_start, actual,
                   commits_data, shape, response_text, result, n, prev>>

\* model.generate_content(prompt), the parse of its text, the check of the
\* result and the write of last_analyzed_url.
LLMCall(responses) ==
    /\ pc = "Analyzing"
    /\ \/ /\ calls' = Append(calls, Call("llm", "exception"))
          /\ pc' = "Unexpected"
          /\ UNCHANGED <<shape, response_text, result, session_state>>
       \/ \E r \in responses :
            /\ calls' = Append(calls, Call("llm", "text"))
            /\ shape' = r
            /\ response_text' = r.text
            /\ result' = GetAiAnalysis(r.text)
            /\ IF InRaises(result') THEN
                    /\ pc' = "Unexpected"
                    /\ UNCHANGED session_state
               ELSE IF ErrorIn(result') THEN
                    /\ pc' = "AnalyzeFailed"
                    /\ UNCHANGED session_state
               ELSE /\ pc' = "Rendered"
                    /\ session_state' =
                          [k \in DOMAIN session_state \cup {"last_analyzed_url"} |->
                              IF k = "last_analyzed_url" THEN repo_url
                              ELSE session_state[k]]
    /\ UNCHANGED <<fpc, repo_url, owner, repo, state_at_start, actual, commits_data,
                   repo_data, n, prev>>

\* The display of the result raises, and the handler of last resort reports it.
RenderFails ==
    /\ pc = "Rendered"
    /\ RenderRaises(result)
    /\ pc' = "Unexpected"
    /\ UNCHANGED <<fpc, repo_url, owner, repo, session_state, state_at_start, calls,
                   actual, commits_data, repo_data, shape, response_text, result, n, prev>>

\* The handler returns (after the display, for a rendered result): the locals
\* are gone, the text input keeps its value.
Return ==
    /\ pc \in Terminal
    /\ pc = "Rendered" => ~RenderRaises(result)
    /\ pc' = AfterTerminal(pc)
    /\ prev' = [url |-> repo_url, outcome |-> pc, fetches |-> Count(calls, "repo"),
                llm |-> Count(calls, "llm")]
    /\ fpc' = "none"
    /\ owner' = <<>>
    /\ repo' = <<>>
    /\ calls' = <<>>
    /\ actual' = 0
    /\ commits_data' = NoCommits
    /\ repo_data' = NoData
    /\ shape' = NoShape
    /\ response_text' = <<>>
    /\ result' = NoValue
    /\ state_at_start' = session_state
    /\ UNCHANGED <<repo_url, session_state, n>>

\* The commit counts of the sessions: none, and more than a page.
SessionCounts == {0, PerPage + 1}

\* A session: any of the URLs, one response of each kind.
Next ==
    \/ Submit(SessionUrls)
    \/ Validate
    \/ PrimaryCall
    \/ CommitsCall(SessionCounts)
    \/ ReadmeCall
    \/ LLMCall(SessionResponses)
    \/ RenderFails
    \/ Return

Spec == Init /\ [][Next]_vars

\* Every step of a request in flight is taken: the handler runs to its end once
\* the button is pressed, each call returning or raising.
Progress ==
    \/ Validate
    \/ PrimaryCall
    \/ CommitsCall(SessionCounts)
    \/ ReadmeCall
    \/ LLMCall(SessionResponses)
    \/ RenderFails
    \/ Return

FairSpec == Spec /\ WF_vars(Progress)

\* The fetch of one repository with every commit count up to MaxCommits.
NextFetch ==
    \/ Submit({UrlFull})
    \/ Validate
    \/ PrimaryCall
    \/ CommitsCall(0..MaxCommits)
    \/ ReadmeCall
    \/ LLMCall({Shaped("none", PayloadObject, 0, 0, 0), Shaped("none", PayloadList, 0, 0, 0)})
    \/ RenderFails
    \/ Return

SpecFetch == Init /\ [][NextFetch]_vars

\* The analysis of one repository with every response text.
NextFence ==
    \/ Submit({UrlFull})
    \/ Validate
    \/ PrimaryCall
    \/ CommitsCall({0})
    \/ ReadmeCall
    \/ LLMCall(AllResponses)
    \/ RenderFails
    \/ Return

SpecFence == Init /\ [][NextFence]_vars

(* ------------------------------ the claims ---------------------------- *)

\* The request got an answer from fetch_repo_data.
FetchReturned == DOMAIN repo_data # {}

\* The primary call of the request came back with status 200.
PrimaryOk == calls # <<>> /\ calls[1] = Call("repo", "200")

\* The LLM answered this request with a text.
LLMAnswered == calls # <<>> /\ calls[Len(calls)] = Call("llm", "text")

\* The request is the second of two submissions of the same input in a row.
SecondInARow == pc # "Idle" /\ n >= 2 /\ prev.url = repo_url

PathSegments(url) ==
    LET parts == Split(RStripChars(Strip(url), {"/"}), "/")
        scheme == Len(parts) >= 2 /\ parts[1] # <<>>
                    /\ parts[1][Len(parts[1])] = ":" /\ parts[2] = <<>>
    IN IF scheme THEN SubSeq(parts, 4, Len(parts)) ELSE parts

TwoTrailingSegments(url) ==
    LET segs == PathSegments(url)
    IN Len(segs) >= 2 /\ segs[Len(segs) - 1] # <<>> /\ segs[Len(segs)] # <<>>

\* C2: a submitted URL without two non-empty trailing path segments (owner,
\* repo) is rejected, and no network call is made for it.
C2_RejectedBeforeAnyCall ==
    (pc \notin {"Idle", "Validating"} /\ ~TwoTrailingSegments(repo_url)) =>
        pc = "Rejected" /\ calls = <<>>

\* C3: a request whose trimmed URL equals the lastAnalyzedUrl of the session
\* is cut short by the duplicate guard and makes no network call.
C3_GuardOnTrimmedUrl ==
    (/\ pc \notin {"Idle", "Validating"}
     /\ "last_analyzed_url" \in DOMAIN state_at_start
     /\ Strip(repo_url) = state_at_start["last_analyzed_url"]) =>
        pc = "Duplicate" /\ calls = <<>>

\* The states from which each state of a request is entered.
Pred(state) ==
    CASE state = "Validating" -> {"Idle"}
      [] state \in {"Rejected", "Duplicate", "Fetching"} -> {"Validating"}
      [] state \in {"FetchFailed", "Analyzing"} -> {"Fetching"}
      [] state \in {"AnalyzeFailed", "Rendered"} -> {"Analyzing"}
      [] state = "Unexpected" -> {"Analyzing", "Rendered"}
      [] state = "Idle" -> Terminal

\* C4: a request goes Idle, Validating, Rejected or Fetching, FetchFailed or
\* Analyzing, AnalyzeFailed or Rendered, entering each state only from the one
\* before it (the duplicate short cut leaves Validating, the unexpected error
\* leaves Analyzing or Rendered); a request in flight always comes back to
\* Idle, and Idle takes a new request.
C4_StateMachine ==
    /\ [][pc' # pc => pc \in Pred(pc')]_vars
    /\ [](pc = "Idle" /\ n < MaxRequests => ENABLED Submit(SessionUrls))
    /\ (pc # "Idle") ~> (pc = "Idle")

C4_Witness == pc = "Rendered" /\ n >= 2 /\ prev.outcome = "Unexpected"

\* A commits or README call of the request timed out or raised.
SecondaryRaised ==
    \E i \in DOMAIN calls :
        calls[i].call \in {"commits", "readme"} /\ calls[i].outcome \in Raised

C6_FenceStripping ==
    LLMAnswered =>
        LET bare == JsonLoads(shape.payload)
        IN /\ (shape.style \in {"none", "json", "plain"} /\ bare.ok) => result = bare.val
           /\ ~JsonLoads(StripFences(response_text)).ok =>
                 result = ErrorDict(InvalidFormatMsg)
           /\ (shape.style = "none" /\ ~bare.ok) => result = ErrorDict(InvalidFormatMsg)

C6_Witness ==
    /\ LLMAnswered
    /\ shape.style = "json"
    /\ shape.payload = PayloadObject
    /\ response_text # shape.payload
    /\ result = JsonLoads(PayloadObject).val
    /\ pc = "Rendered"

\* C7: the commits of a record are min(the commits of the repository, 50) when
\* the commits response is a list, 0 when it is not, and never negative.
C7_CommitCount ==
    (FetchReturned /\ ~IsError(repo_data)) =>
        /\ repo_data.commits >= 0
        /\ calls[2].outcome = "list" => repo_data.commits = Min(actual, 50)
        /\ calls[2].outcome = "nonlist" => repo_data.commits = 0

C7_Witness ==
    /\ pc = "Analyzing"
    /\ calls[2].outcome = "list"
    /\ actual > 50
    /\ repo_data.commits = 50

\* C8: a request that ends in Rejected, in the duplicate short cut, in
\* FetchFailed, in AnalyzeFailed or in the handler of unexpected errors leaves
\* lastAnalyzedUrl as it was.
C8_WrittenOnlyByRendered ==
    pc \in {"Rejected", "Duplicate", "FetchFailed", "AnalyzeFailed", "Unexpected"} =>
        session_state = state_at_start

\* C9: the primary call is the first call of a request; the commits and README
\* calls come only after a primary call that returned 200; the LLM is called
\* at most once and only with a record; nothing is called after a failed fetch.
C9_CallGating ==
    /\ \A i \in DOMAIN calls :
        /\ calls[i].call = "repo" <=> i = 1
        /\ calls[i].call \in {"commits", "readme"} => PrimaryOk
        /\ calls[i].call = "llm" => FetchReturned /\ ~IsError(repo_data)
    /\ Count(calls, "llm") <= 1
    /\ (FetchReturned /\ IsError(repo_data)) =>
          LET last == calls[Len(calls)]
          IN /\ pc = "FetchFailed"
             /\ last.call # "llm"
             /\ last.outcome \in Raised \/ (Len(calls) = 1 /\ last.outcome # "200")

C9_Witness ==
    /\ pc = "Rendered"
    /\ Len(calls) = 4
    /\ calls[2].call = "commits"
    /\ calls[3].call = "readme"
    /\ calls[4].call = "llm"

\* C10: after a successful fetch, a response that parses as JSON, whatever its
\* shape, takes the request to Rendered, and only a response that does not
\* parse takes it to AnalyzeFailed.
C10_AnyJsonRenders ==
    LLMAnswered =>
        IF JsonLoads(StripFences(response_text)).ok THEN pc = "Rendered"
        ELSE pc = "AnalyzeFailed"

====
